---- MODULE Spec2Model ----
(***************************************************************************)
(* A model of copytags.py: the path mapper (substitute_prefix,             *)
(* find_file_any_ext, find_source_file), the file enumerator               *)
(* (get_all_music_files), the tag adapter (AudioFile), the copy engine     *)
(* (copy_tags, copy_tags_recursive) and the command line entry point.      *)
(*                                                                         *)
(* A string is a sequence of one-character strings, so that splitting,     *)
(* joining, searching and sorting are computed as the code computes them.  *)
(***************************************************************************)
EXTENDS Integers, Sequences, FiniteSets, TLC

VARIABLES
    pc,      \* the position of the running call
    inp,     \* the arguments of the call under study
    out,     \* what the calls returned or raised
    fs,      \* the file system: directories, directory symlinks, audio files
    disk,    \* the tags stored in each audio file
    m_src,   \* copy_tags' source AudioFile
    m_dest,  \* copy_tags' destination AudioFile
    run      \* the state of the command line run

vars == <<pc, inp, out, fs, disk, m_src, m_dest, run>>

----------------------------------------------------------------------------
(* Bounds of the model *)

MaxDepth == 2
MaxEntries == 3
MaxUpdate == 2
MaxArgs == 4

----------------------------------------------------------------------------
(* Strings *)

\* The characters used, in code point order ('.' < '/' < '_' < 'a' .. < '~').
CharOrder == <<".", "/", "_", "a", "b", "c", "d", "e", "f", "g", "h", "i", "j",
               "k", "l", "m", "n", "o", "p", "r", "s", "t", "u", "v", "w",
               "x", "y", "~">>

Rank(c) == CHOOSE i \in 1..Len(CharOrder) : CharOrder[i] = c

\* s < t in the order Python's sorted() gives strings.
RECURSIVE StrLess(_, _)
StrLess(s, t) ==
    IF t = <<>> THEN FALSE
    ELSE IF s = <<>> THEN TRUE
    ELSE IF Head(s) = Head(t) THEN StrLess(Tail(s), Tail(t))
    ELSE Rank(Head(s)) < Rank(Head(t))

StartsWith(s, p) == Len(p) <= Len(s) /\ SubSeq(s, 1, Len(p)) = p

EndsWith(s, p) == Len(p) <= Len(s) /\ SubSeq(s, Len(s) - Len(p) + 1, Len(s)) = p

\* re.search of a literal: sub occurs somewhere in s.
Contains(s, sub) ==
    \E i \in 1..(Len(s) - Len(sub) + 1) : SubSeq(s, i, i + Len(sub) - 1) = sub

\* str.rfind(c): the last index of c in s, 0 when there is none (1-based).
RFind(s, c) ==
    IF \E i \in 1..Len(s) : s[i] = c
    THEN CHOOSE i \in 1..Len(s) : s[i] = c /\ \A j \in (i+1)..Len(s) : s[j] # c
    ELSE 0

\* str.split(os.sep)
RECURSIVE SplitFrom(_, _, _, _)
SplitFrom(s, i, cur, acc) ==
    IF i > Len(s) THEN Append(acc, cur)
    ELSE IF s[i] = "/" THEN SplitFrom(s, i + 1, <<>>, Append(acc, cur))
    ELSE SplitFrom(s, i + 1, Append(cur, s[i]), acc)

Split(s) == SplitFrom(s, 1, <<>>, <<>>)

\* '/'.join(comps)
RECURSIVE SlashJoin(_)
SlashJoin(comps) ==
    IF comps = <<>> THEN <<>>
    ELSE IF Len(comps) = 1 THEN comps[1]
    ELSE comps[1] \o <<"/">> \o SlashJoin(Tail(comps))

----------------------------------------------------------------------------
(* os.path *)

\* posixpath.normpath's loop over the components.
RECURSIVE NormComps(_, _, _)
NormComps(comps, slashes, acc) ==
    IF comps = <<>> THEN acc
    ELSE LET comp == Head(comps) IN
         IF comp = <<>> \/ comp = <<".">>
         THEN NormComps(Tail(comps), slashes, acc)
         ELSE IF \/ comp # <<".", ".">>
                 \/ (slashes = 0 /\ acc = <<>>)
                 \/ (acc # <<>> /\ acc[Len(acc)] = <<".", ".">>)
         THEN NormComps(Tail(comps), slashes, Append(acc, comp))
         ELSE IF acc # <<>>
         THEN NormComps(Tail(comps), slashes, SubSeq(acc, 1, Len(acc) - 1))
         ELSE NormComps(Tail(comps), slashes, acc)

RECURSIVE Slashes(_)
Slashes(n) == IF n = 0 THEN <<>> ELSE <<"/">> \o Slashes(n - 1)

\* os.path.normpath
normpath(path) ==
    IF path = <<>> THEN <<".">>
    ELSE LET initial_slashes ==
                 IF ~StartsWith(path, <<"/">>) THEN 0
                 ELSE IF StartsWith(path, <<"/", "/">>)
                         /\ ~StartsWith(path, <<"/", "/", "/">>) THEN 2
                 ELSE 1
             joined == Slashes(initial_slashes)
                       \o SlashJoin(NormComps(Split(path), initial_slashes, <<>>))
         IN IF joined = <<>> THEN <<".">> ELSE joined

\* os.path.join(a, b)
join2(a, b) ==
    IF StartsWith(b, <<"/">>) THEN b
    ELSE IF a = <<>> \/ EndsWith(a, <<"/">>) THEN a \o b
    ELSE a \o <<"/">> \o b

\* os.path.join(*parts), parts not empty
RECURSIVE JoinFrom(_, _)
JoinFrom(path, rest) ==
    IF rest = <<>> THEN path ELSE JoinFrom(join2(path, Head(rest)), Tail(rest))

pathjoin(parts) == JoinFrom(Head(parts), Tail(parts))

\* os.path.basename
basename(p) == SubSeq(p, RFind(p, "/") + 1, Len(p))

\* str.rstrip('/')
RECURSIVE RStripSlash(_)
RStripSlash(s) ==
    IF s # <<>> /\ s[Len(s)] = "/" THEN RStripSlash(SubSeq(s, 1, Len(s) - 1)) ELSE s

\* os.path.dirname
dirname(p) ==
    LET head == SubSeq(p, 1, RFind(p, "/")) IN
    IF head # <<>> /\ head # Slashes(Len(head)) THEN RStripSlash(head) ELSE head

\* genericpath._splitext's scan past the leading dots of the last component.
RECURSIVE ExtScan(_, _, _)
ExtScan(p, filenameIndex, dotIndex) ==
    IF filenameIndex >= dotIndex THEN 0
    ELSE IF p[filenameIndex] # "." THEN dotIndex
    ELSE ExtScan(p, filenameIndex + 1, dotIndex)

\* os.path.splitext(p)[0]
splitext0(p) ==
    LET sepIndex == RFind(p, "/")
        dotIndex == RFind(p, ".")
        cut == IF dotIndex > sepIndex THEN ExtScan(p, sepIndex + 1, dotIndex) ELSE 0
    IN IF cut = 0 THEN p ELSE SubSeq(p, 1, cut - 1)

----------------------------------------------------------------------------
(* substitute_prefix *)

\* The result of a call that may raise: a value, or the exception.
Ok(v) == [ok |-> TRUE, val |-> v]
Raise(e) == [ok |-> FALSE, val |-> e]

Take(s, n) == SubSeq(s, 1, IF n < Len(s) THEN n ELSE Len(s))
Drop(s, n) == SubSeq(s, n + 1, Len(s))

\* zip(old_components, stripped_components) holds a pair a != b.
ZipMismatch(old_components, stripped_components) ==
    \E i \in 1..Len(old_components) :
        i <= Len(stripped_components) /\ old_components[i] # stripped_components[i]

substitute_prefix(path, oldprefix, newprefix) ==
    LET path_components == Split(normpath(path))
        old_components == Split(normpath(oldprefix))
        new_components == Split(normpath(newprefix))
        stripped_components == Take(path_components, Len(old_components))
        unstripped_components == Drop(path_components, Len(old_components))
        full_path == new_components \o unstripped_components
    IN IF ZipMismatch(old_components, stripped_components)
       THEN Raise(<<"Exception", "does not start with oldprefix">>)
       ELSE Ok(pathjoin(IF full_path[1] = <<>>
                        THEN <<(<<"/">>)>> \o Tail(full_path)
                        ELSE full_path))

----------------------------------------------------------------------------
(* The file system.  fs.dirs maps each real directory to the names of its  *)
(* entries, fs.links maps each directory symlink to its target, fs.audio   *)
(* maps each file the tag library recognizes to its format.                *)

Unused == <<>>

RECURSIVE realpath(_, _)
realpath(f, p) ==
    LET n == normpath(p)
        hits == {l \in DOMAIN f.links :
                    /\ Len(Split(l)) <= Len(Split(n))
                    /\ SubSeq(Split(n), 1, Len(Split(l))) = Split(l)}
    IN IF hits = {} THEN n
       ELSE LET l == CHOOSE x \in hits : TRUE
            IN realpath(f, pathjoin(<<f.links[l]>> \o Drop(Split(n), Len(Split(l)))))

isdir(f, p) == realpath(f, p) \in DOMAIN f.dirs

\* os.listdir: the entries' names, in no particular order.
listdir(f, p) ==
    IF p # <<>> /\ isdir(f, p) THEN Ok(f.dirs[realpath(f, p)])
    ELSE Raise(<<"OSError", "no such directory">>)

\* sorted() of a set of strings
RECURSIVE Sorted(_)
Sorted(S) ==
    IF S = {} THEN <<>>
    ELSE LET least == CHOOSE x \in S : \A y \in S \ {x} : StrLess(x, y)
         IN <<least>> \o Sorted(S \ {least})

----------------------------------------------------------------------------
(* find_file_any_ext, find_source_file *)

\* Mutant: the listing searched without sorting it first (here, backwards).
find_file_any_ext_unsorted(f, path) ==
    LET target_base == basename(path)
        target_dir == dirname(path)
        listing == listdir(f, target_dir)
    IN IF ~listing.ok THEN listing
       ELSE LET files == Sorted(listing.val)
                matches == SelectSeq(files, LAMBDA p : splitext0(p) = target_base)
            IN IF matches = <<>>
               THEN Raise(<<"Exception", "could not find a file with that basename">>)
               ELSE Ok(join2(target_dir, matches[Len(matches)]))

find_file_any_ext(f, path) ==
    LET target_base == basename(path)
        target_dir == dirname(path)
        listing == listdir(f, target_dir)
    IN IF ~listing.ok THEN listing
       ELSE LET files == Sorted(listing.val)
                matches == SelectSeq(files, LAMBDA p : splitext0(p) = target_base)
            IN IF matches = <<>>
               THEN Raise(<<"Exception", "could not find a file with that basename">>)
               ELSE Ok(join2(target_dir, Head(matches)))

find_source_file(f, dest_file, src, dest) ==
    LET prefix_subbed == substitute_prefix(dest_file, dest, src)
    IN IF ~prefix_subbed.ok THEN prefix_subbed
       ELSE find_file_any_ext(f, splitext0(prefix_subbed.val))

----------------------------------------------------------------------------
(* AudioFile: the tag adapter over the tag library's file object.          *)
(* data is the library's tag mapping (every key of the file, hidden ones   *)
(* included); fmt is the file's format: "full" takes every key, "limited"  *)
(* rejects some keys with KeyError, "tagless" holds no tags and raises     *)
(* AACError on a set.                                                      *)

kArtist == <<"a", "r", "t", "i", "s", "t">>
kOdd == <<"a", "~">>
kEncodedBy == <<"e", "n", "c", "o", "d", "e", "d", "b", "y">>
kUnencoded == <<"u", "n", "e", "n", "c", "o", "d", "e", "d">>
kReplayGain == <<"r", "e", "p", "l", "a", "y", "g", "a", "i", "n">>
kInternal == <<"~", "f">>

TagKeys == {kArtist, kOdd, kEncodedBy, kUnencoded, kReplayGain, kInternal}
TagValues == {"v1", "v2"}
None == "None"

\* A compiled regular expression: a literal, anchored at the start or not.
Regex(anchored, lit) == [anchored |-> anchored, lit |-> lit]

\* re.search(regex, item)
re_search(regex, item) ==
    IF regex.anchored THEN StartsWith(item, regex.lit) ELSE Contains(item, regex.lit)

blacklist_regexes ==
    << Regex(FALSE, <<"e", "n", "c", "o", "d", "e", "d">>),
       Regex(FALSE, <<"r", "e", "p", "l", "a", "y", "g", "a", "i", "n">>) >>

\* AudioFile.__init__ on a file the library recognizes
AudioFile(filename, tags, fmt, blacklist) ==
    [filename |-> filename, data |-> tags, fmt |-> fmt,
     blacklist |-> <<Regex(TRUE, <<"~">>)>> \o blacklist]

\* Mutant: the patterns matched at the start of the key only (re.match).
blacklisted_match(self, item) ==
    \E i \in 1..Len(self.blacklist) : StartsWith(item, self.blacklist[i].lit)

blacklisted(self, item) ==
    \E i \in 1..Len(self.blacklist) : re_search(self.blacklist[i], item)

\* The keys the format's tag mapping rejects with KeyError.
Unsupported(fmt) == IF fmt = "limited" THEN {kOdd} ELSE {}

Without(f, k) == [x \in (DOMAIN f) \ {k} |-> f[x]]
With(f, k, v) == [x \in (DOMAIN f) \cup {k} |-> IF x = k THEN v ELSE f[x]]

\* A method's outcome: the object after the call and what the call returned.
Done(self, ret) == [self |-> self, ret |-> ret]

getitem(self, item) ==
    IF blacklisted(self, item) THEN Done(self, Ok(None))
    ELSE IF item \in DOMAIN self.data THEN Done(self, Ok(self.data[item]))
    ELSE Done(self, Raise(<<"KeyError">>))

setitem(self, item, value) ==
    IF blacklisted(self, item) THEN Done(self, Ok(None))
    ELSE IF self.fmt = "tagless" THEN Done(self, Raise(<<"AACError">>))
    ELSE IF item \in Unsupported(self.fmt) THEN Done(self, Ok(None))
    ELSE Done([self EXCEPT !.data = With(self.data, item, value)], Ok(None))

delitem(self, item) ==
    IF blacklisted(self, item) THEN Done(self, Ok(None))
    ELSE IF item \in DOMAIN self.data
    THEN Done([self EXCEPT !.data = Without(self.data, item)], Ok(None))
    ELSE Done(self, Raise(<<"KeyError">>))

keys(self) == {key \in DOMAIN self.data : ~blacklisted(self, key)}

\* Mutant: a clear() that removes nothing.
clear_nothing(self) == Done(self, Ok(None))

\* MutableMapping.clear: popitem until no key is left to iterate.
RECURSIVE clear(_)
clear(self) ==
    IF keys(self) = {} THEN Done(self, Ok(None))
    ELSE LET key == CHOOSE k \in keys(self) : TRUE
         IN clear(delitem(self, key).self)

\* MutableMapping.update(other): self[key] = other[key] for each key of
\* other, stopping at the first set that raises.  todo holds other's keys.
RECURSIVE UpdateFrom(_, _, _)
UpdateFrom(self, items, todo) ==
    IF todo = {} THEN Done(self, Ok(None))
    ELSE LET key == CHOOSE k \in todo : TRUE
             step == setitem(self, key, items[key])
         IN IF ~step.ret.ok THEN step
            ELSE UpdateFrom(step.self, items, todo \ {key})

update(self, items) == UpdateFrom(self, items, DOMAIN items)

----------------------------------------------------------------------------
(* get_all_music_files *)

\* mutagen.File(path): a handle carrying the path as given, or None (here
\* NotAudio) when the file is not recognized as audio.
NotAudio == [filename |-> <<>>]

MusicFile(f, path) ==
    IF realpath(f, path) \in DOMAIN f.audio THEN [filename |-> path] ELSE NotAudio

remove_hidden_paths(paths) == {p \in paths : ~StartsWith(p, <<".">>)}

\* unique(items, key_fun = lambda x: x.filename): one item for each key.
unique(items) ==
    LET keyset == {i.filename : i \in items}
    IN {CHOOSE i \in items : i.filename = k : k \in keyset}

\* os.walk(top, followlinks=True): the (root, dirs, files) triples, top down.
\* Which directories are visited is decided by the walk's own dirs lists.
RECURSIVE walk(_, _)
walk(f, top) ==
    LET names == listdir(f, top).val
        dirs == {n \in names : isdir(f, join2(top, n))}
        files == names \ dirs
    IN {[root |-> top, dirs |-> dirs, files |-> files]}
        \cup UNION {walk(f, join2(top, d)) : d \in dirs}

\* The handles collected for one path of the paths argument.  The loop
\* body's dirs is a new list bound to the local name: the walk keeps its own.
MusicFilesOf(f, p, ignore_hidden) ==
    IF isdir(f, p)
    THEN UNION { LET files == IF ignore_hidden THEN remove_hidden_paths(t.files)
                              ELSE t.files
                     dirs == IF ignore_hidden THEN remove_hidden_paths(t.dirs)
                             ELSE t.dirs
                     more_files == {MusicFile(f, join2(t.root, x)) : x \in files}
                 IN more_files \ {NotAudio}
                 : t \in walk(f, p) }
    ELSE {MusicFile(f, p)} \ {NotAudio}

\* The handles get_all_music_files returns; sorted() then orders them by the
\* tag library's comparison of file objects, which is not an order on paths.
get_all_music_files(f, paths, ignore_hidden) ==
    unique(UNION {MusicFilesOf(f, paths[i], ignore_hidden) : i \in 1..Len(paths)})

\* The orders a sorted() of handles can come back in.
Orders(S) == {q \in [1..Cardinality(S) -> S] : \A x \in S : \E i \in DOMAIN q : q[i] = x}

----------------------------------------------------------------------------
(* The path mapper called on its own: substitute_prefix(path, oldprefix,   *)
(* newprefix), then substitute_prefix(result, newprefix, oldprefix).       *)

SegNames == {<<"a">>, <<"b">>}

RECURSIVE SeqsUpTo(_, _)
SeqsUpTo(S, n) ==
    IF n = 0 THEN {<<>>}
    ELSE LET shorter == SeqsUpTo(S, n - 1)
         IN shorter \cup {Append(q, x) : q \in {r \in shorter : Len(r) = n - 1}, x \in S}

\* The normalized paths of at most MaxDepth segments: '/', '/a', '/a/b', '.', 'a', 'a/b', ...
AbsPath(segs) == <<"/">> \o SlashJoin(segs)
RelPath(segs) == IF segs = <<>> THEN <<".">> ELSE SlashJoin(segs)
PathInputs ==
    {AbsPath(q) : q \in SeqsUpTo(SegNames, MaxDepth)}
        \cup {RelPath(q) : q \in SeqsUpTo(SegNames, MaxDepth)}

Pending == [ok |-> FALSE, val |-> <<"pending">>]

InitPath ==
    /\ pc = "path_start"
    /\ inp \in [path : PathInputs, oldprefix : PathInputs, newprefix : PathInputs]
    /\ out = [res |-> Pending, back |-> Pending]
    /\ fs = Unused /\ disk = Unused /\ m_src = Unused /\ m_dest = Unused /\ run = Unused

CallSubstitutePrefix ==
    /\ pc = "path_start"
    /\ out' = [out EXCEPT !.res = substitute_prefix(inp.path, inp.oldprefix, inp.newprefix)]
    /\ pc' = "path_subst"
    /\ UNCHANGED <<inp, fs, disk, m_src, m_dest, run>>

CallSubstituteBack ==
    /\ pc = "path_subst"
    /\ out.res.ok
    /\ out' = [out EXCEPT !.back = substitute_prefix(out.res.val, inp.newprefix, inp.oldprefix)]
    /\ pc' = "path_back"
    /\ UNCHANGED <<inp, fs, disk, m_src, m_dest, run>>

NextPath == CallSubstitutePrefix \/ CallSubstituteBack

SpecPath == InitPath /\ [][NextPath]_vars

\* The components the code compares, and the segments of a path proper.
Components(p) == Split(normpath(p))
IsAbsolute(p) == StartsWith(p, <<"/">>)
Segments(p) == SelectSeq(Components(p), LAMBDA c : c # <<>> /\ c # <<".">>)
IsPrefixSeq(a, b) == Len(a) <= Len(b) /\ SubSeq(b, 1, Len(a)) = a

\* C5: substitute_prefix raises whenever the path's leading components are
\* not all of oldprefix's components, a path shorter than oldprefix included.
C5_FailsOnEveryMismatch ==
    (pc \in {"path_subst", "path_back"}
        /\ ~IsPrefixSeq(Components(inp.oldprefix), Components(inp.path)))
    => ~out.res.ok

\* C6: when the path's segments start with oldprefix's segments (oldprefix
\* may be '/'; '.' left aside), substitute_prefix succeeds, its result's
\* segments are newprefix's segments followed by the path's remaining
\* segments, an absolute newprefix gives an absolute result, and
\* substituting back recovers the path.
C6_SubstituteAndBack ==
    (/\ pc \in {"path_subst", "path_back"}
     /\ inp.oldprefix # <<".">> /\ inp.newprefix # <<".">> /\ inp.path # <<".">>
     /\ IsAbsolute(inp.path) = IsAbsolute(inp.oldprefix)
     /\ IsPrefixSeq(Segments(inp.oldprefix), Segments(inp.path)))
    => /\ out.res.ok
       /\ Segments(out.res.val)
            = Segments(inp.newprefix)
                \o Drop(Segments(inp.path), Len(Segments(inp.oldprefix)))
       /\ IsAbsolute(inp.newprefix) => IsAbsolute(out.res.val)
       /\ pc = "path_back" => out.back = Ok(inp.path)

----------------------------------------------------------------------------
(* The source lookup called on its own, over the listings of the source    *)
(* directory /s: find_file_any_ext(path), then                             *)
(* find_source_file(dest_file, src, dest).                                 *)

EntryNames ==
    { <<"t">>, <<"t", ".", "a">>, <<"t", ".", "b">>, <<"t", ".", "a", ".", "b">>,
      <<".", "t">>, <<".", "t", ".", "a">>, <<"t", ".">>, <<"u", ".", "a">> }

Listings == {S \in SUBSET EntryNames : Cardinality(S) <= MaxEntries}

DirS == <<"/", "s">>
DirD == <<"/", "d">>
DirE == <<"/", "e">>
DirQ == <<"/", "q">>

Under(d, name) == d \o <<"/">> \o name

FindTargets ==
    {Under(DirS, b) : b \in {<<"t">>, <<"t", ".", "a">>, <<".", "t">>, <<"u">>, <<"b">>}}
        \cup {Under(DirQ, <<"t">>)}

ListingFS(listing) == [dirs |-> (DirS :> listing), links |-> <<>>, audio |-> <<>>]

InitFind ==
    /\ pc = "find_start"
    /\ \E listing \in Listings : fs = ListingFS(listing)
    /\ inp \in [path : FindTargets,
                dest_file : {Under(DirD, n) : n \in EntryNames},
                src : {DirS}, dest : {DirD, DirE}]
    /\ out = [found |-> Pending, source |-> Pending]
    /\ disk = Unused /\ m_src = Unused /\ m_dest = Unused /\ run = Unused

CallFindFileAnyExt ==
    /\ pc = "find_start"
    /\ out' = [out EXCEPT !.found = find_file_any_ext(fs, inp.path)]
    /\ pc' = "find_any"
    /\ UNCHANGED <<inp, fs, disk, m_src, m_dest, run>>

CallFindSourceFile ==
    /\ pc = "find_any"
    /\ out' = [out EXCEPT !.source = find_source_file(fs, inp.dest_file, inp.src, inp.dest)]
    /\ pc' = "find_source"
    /\ UNCHANGED <<inp, fs, disk, m_src, m_dest, run>>

NextFind == CallFindFileAnyExt \/ CallFindSourceFile

SpecFind == InitFind /\ [][NextFind]_vars

\* The entries of directory d whose name without its last extension is base,
\* and the smallest of them.
Matching(d, base) ==
    IF d \in DOMAIN fs.dirs THEN {e \in fs.dirs[d] : splitext0(e) = base} ELSE {}
IsLeast(e, S) == e \in S /\ \A x \in S : x = e \/ StrLess(e, x)

\* C10: find_file_any_ext returns the lexicographically smallest entry of
\* path's directory whose name without its last extension is path's
\* basename, and raises exactly when no entry matches; find_source_file
\* returns that for the destination path moved under the source root with
\* its extension stripped.
C10_FirstSortedMatch ==
    /\ pc \in {"find_any", "find_source"} =>
         LET d == dirname(inp.path)
             S == Matching(d, basename(inp.path))
         IN /\ out.found.ok <=> S # {}
            /\ out.found.ok =>
                 \E e \in S : IsLeast(e, S) /\ out.found.val = Under(d, e)
    /\ pc = "find_source" =>
         LET name == basename(inp.dest_file)
             S == IF dirname(inp.dest_file) = inp.dest
                  THEN Matching(inp.src, splitext0(name)) ELSE {}
         IN /\ out.source.ok <=> S # {}
            /\ out.source.ok =>
                 \E e \in S : IsLeast(e, S) /\ out.source.val = Under(inp.src, e)

\* Several same-basename entries, one of them without an extension, and the
\* extensionless one is returned by both calls.
C10_Witness ==
    /\ pc = "find_source"
    /\ inp.path = Under(DirS, <<"t">>)
    /\ {<<"t">>, <<"t", ".", "a">>, <<"t", ".", "b">>} \subseteq fs.dirs[DirS]
    /\ out.found = Ok(Under(DirS, <<"t">>))
    /\ inp.dest_file = Under(DirD, <<"t", ".", "b">>) /\ inp.dest = DirD
    /\ out.source = Ok(Under(DirS, <<"t">>))

----------------------------------------------------------------------------
(* The adapter used on its own: any sequence of get, set, delete, keys,    *)
(* iterate, clear and update on one AudioFile built as copy_tags builds it.*)

HiddenKeys == {kEncodedBy, kUnencoded, kReplayGain, kInternal}

\* The tag mappings a file of the format can hold.
TagMaps(fmt) ==
    IF fmt = "tagless" THEN {<<>>}
    ELSE UNION {[D -> TagValues] : D \in SUBSET (TagKeys \ Unsupported(fmt))}

\* The mappings handed to update(): at most MaxUpdate keys.
UpdateArgs ==
    UNION {[D -> TagValues] : D \in {X \in SUBSET TagKeys : Cardinality(X) <= MaxUpdate}}

Formats == {"full", "limited", "tagless"}

InitAdapter ==
    /\ pc = "adapter"
    /\ \E fmt \in Formats : \E tags \in TagMaps(fmt) :
         /\ \A k \in DOMAIN tags : k \in HiddenKeys => tags[k] = "v1"
         /\ m_dest = AudioFile(Under(DirD, <<"t", ".", "m">>), tags, fmt, blacklist_regexes)
    /\ out = [op |-> "init", key |-> <<>>, value |-> None, ret |-> Ok(None)]
    /\ inp = Unused /\ fs = Unused /\ disk = Unused /\ m_src = Unused /\ run = Unused

Returned(op, key, value, res) ==
    /\ m_dest' = res.self
    /\ out' = [op |-> op, key |-> key, value |-> value, ret |-> res.ret]
    /\ UNCHANGED <<pc, inp, fs, disk, m_src, run>>

AdapterGet ==
    /\ pc = "adapter"
    /\ \E k \in TagKeys : Returned("get", k, None, getitem(m_dest, k))

AdapterSet ==
    /\ pc = "adapter"
    /\ \E k \in TagKeys : \E v \in TagValues : Returned("set", k, v, setitem(m_dest, k, v))

AdapterDelete ==
    /\ pc = "adapter"
    /\ \E k \in TagKeys : Returned("delete", k, None, delitem(m_dest, k))

AdapterKeys ==
    /\ pc = "adapter"
    /\ Returned("keys", <<>>, None, Done(m_dest, Ok(keys(m_dest))))

AdapterIterate ==
    /\ pc = "adapter"
    /\ Returned("iterate", <<>>, None, Done(m_dest, Ok(keys(m_dest))))

AdapterClear ==
    /\ pc = "adapter"
    /\ Returned("clear", <<>>, None, clear(m_dest))

AdapterUpdate ==
    /\ pc = "adapter"
    /\ \E items \in UpdateArgs : Returned("update", <<>>, None, update(m_dest, items))

NextAdapter ==
    \/ AdapterGet \/ AdapterSet \/ AdapterDelete \/ AdapterKeys
    \/ AdapterIterate \/ AdapterClear \/ AdapterUpdate

SpecAdapter == InitAdapter /\ [][NextAdapter]_vars

\* A key the blacklist is meant to hide.
IsHiddenKey(k) ==
    \/ Contains(k, <<"e", "n", "c", "o", "d", "e", "d">>)
    \/ Contains(k, <<"r", "e", "p", "l", "a", "y", "g", "a", "i", "n">>)
    \/ Head(k) = "~"

SameEntry(k, f, g) ==
    /\ k \in DOMAIN f <=> k \in DOMAIN g
    /\ k \in DOMAIN f => f[k] = g[k]

C4_HiddenNotExposed ==
    /\ out.op \in {"keys", "iterate"} => \A k \in out.ret.val : ~IsHiddenKey(k)
    /\ (out.op \in {"get", "set", "delete"} /\ IsHiddenKey(out.key)) => out.ret = Ok(None)

C4_HiddenNotChanged ==
    /\ \A k \in TagKeys : IsHiddenKey(k) => SameEntry(k, m_dest.data, m_dest'.data)
    /\ (out'.op \in {"set", "delete"} /\ IsHiddenKey(out'.key)) => m_dest'.data = m_dest.data

\* C4: through any sequence of adapter operations a hidden key (containing
\* 'encoded' or 'replaygain', or starting with '~') is never listed by keys()
\* or iteration, get on it returns None, set and delete on it return without
\* raising and leave the underlying mapping as it was, and no operation
\* changes or removes a hidden key's entry in the underlying mapping.
C4_BlacklistHidden == [](C4_HiddenNotExposed) /\ [][C4_HiddenNotChanged]_vars

\* A set of a new value on a stored hidden key that has 'encoded' in its
\* middle, which returned and left the stored value in place.
C4_Witness ==
    /\ out.op = "set" /\ out.key = kUnencoded /\ out.value = "v2"
    /\ kUnencoded \in DOMAIN m_dest.data /\ m_dest.data[kUnencoded] = "v1"
    /\ kArtist \in DOMAIN m_dest.data

----------------------------------------------------------------------------
(* The trees the program runs on: a source tree /s, a destination tree /d  *)
(* mirroring it (t.f against t.m, b.f against b.m, a cover image) and a    *)
(* second destination tree /e; optionally /d holds a file without a source,*)
(* a hidden directory and a hidden file, and a directory reached both      *)
(* directly and through a symlink.                                         *)

fT_f == <<"t", ".", "f">>
fT_m == <<"t", ".", "m">>
fB_f == <<"b", ".", "f">>
fB_m == <<"b", ".", "m">>
fU_m == <<"u", ".", "m">>
fC_j == <<"c", ".", "j">>
fX_m == <<".", "x", ".", "m">>
fV_f == <<"v", ".", "f">>
fV_m == <<"v", ".", "m">>
fW_f == <<"w", ".", "f">>
fW_m == <<"w", ".", "m">>
dH == <<".", "h">>
dK == <<"k">>
dL == <<"l">>

When(c, f) == IF c THEN f ELSE <<>>

TreeOptions == [orphan : BOOLEAN, hidden : BOOLEAN, link : BOOLEAN]

Tree(o, fmt) ==
    [dirs |->
        (DirS :> ({fT_f, fB_f} \cup (IF o.hidden THEN {dH} ELSE {})
                               \cup (IF o.link THEN {dK, dL} ELSE {})))
        @@ (DirD :> ({fT_m, fB_m, fC_j}
                         \cup (IF o.orphan THEN {fU_m} ELSE {})
                         \cup (IF o.hidden THEN {dH, fX_m} ELSE {})
                         \cup (IF o.link THEN {dK, dL} ELSE {})))
        @@ (DirE :> {fT_m})
        @@ When(o.hidden, (Under(DirS, dH) :> {fV_f}) @@ (Under(DirD, dH) :> {fV_m}))
        @@ When(o.link, (Under(DirS, dK) :> {fW_f}) @@ (Under(DirD, dK) :> {fW_m})),
     links |->
        When(o.link, (Under(DirS, dL) :> Under(DirS, dK))
                     @@ (Under(DirD, dL) :> Under(DirD, dK))),
     audio |->
        (Under(DirS, fT_f) :> "full") @@ (Under(DirD, fT_m) :> fmt)
        @@ (Under(DirS, fB_f) :> "full") @@ (Under(DirD, fB_m) :> "full")
        @@ (Under(DirE, fT_m) :> "full")
        @@ When(o.orphan, Under(DirD, fU_m) :> "full")
        @@ When(o.hidden, (Under(Under(DirS, dH), fV_f) :> "full")
                          @@ (Under(Under(DirD, dH), fV_m) :> "full")
                          @@ (Under(DirD, fX_m) :> "full"))
        @@ When(o.link, (Under(Under(DirS, dK), fW_f) :> "full")
                        @@ (Under(Under(DirD, dK), fW_m) :> "full"))]

\* The tags on disk: srcTags in /s/t.f, destTags in /d/t.m, and in every
\* other file an artist, with an encoder note in the transcoded ones.
InitialDisk(f, srcTags, destTags) ==
    [path \in DOMAIN f.audio |->
        IF path = Under(DirS, fT_f) THEN srcTags
        ELSE IF path = Under(DirD, fT_m) THEN destTags
        ELSE IF path[Len(path)] = "f" THEN (kArtist :> "v1")
        ELSE (kArtist :> "v2") @@ (kEncodedBy :> "v1")]

----------------------------------------------------------------------------
(* The enumerator called on its own: get_all_music_files(paths,            *)
(* ignore_hidden) with one or two paths of the destination tree.           *)

EnumPaths(f) ==
    {DirD, Under(DirD, fT_m), Under(DirD, fC_j)}
        \cup {p \in {Under(DirD, dK), Under(DirD, dL), Under(DirD, dH)} : isdir(f, p)}

InitEnum ==
    /\ pc = "enum_start"
    /\ \E o \in TreeOptions : fs = Tree(o, "full")
    /\ \E n \in 1..2 : \E paths \in [1..n -> EnumPaths(fs)] : \E h \in BOOLEAN :
         inp = [paths |-> paths, ignore_hidden |-> h]
    /\ out = <<>>
    /\ disk = Unused /\ m_src = Unused /\ m_dest = Unused /\ run = Unused

CallGetAllMusicFiles ==
    /\ pc = "enum_start"
    /\ \E order \in Orders(get_all_music_files(fs, inp.paths, inp.ignore_hidden)) :
         out' = order
    /\ pc' = "enum_done"
    /\ UNCHANGED <<inp, fs, disk, m_src, m_dest, run>>

NextEnum == CallGetAllMusicFiles

SpecEnum == InitEnum /\ [][NextEnum]_vars

\* The components of path below root.
Below(path, root) == Drop(Split(path), Len(Split(root)))
HasHiddenBelow(path, root) ==
    \E i \in DOMAIN Below(path, root) : StartsWith(Below(path, root)[i], <<".">>)

\* C2: with ignore_hidden true no returned file has, below the root it was
\* found under, a component starting with '.'.
C2_NoHiddenComponent ==
    (pc = "enum_done" /\ inp.ignore_hidden) =>
        \A i \in DOMAIN out :
            \A r \in DOMAIN inp.paths :
                StartsWith(out[i].filename, inp.paths[r])
                    => ~HasHiddenBelow(out[i].filename, inp.paths[r])

\* C7: the result holds one handle for each canonical file.
C7_OneHandlePerFile ==
    pc = "enum_done" =>
        \A i, j \in DOMAIN out :
            realpath(fs, out[i].filename) = realpath(fs, out[j].filename) => i = j

----------------------------------------------------------------------------
(* The command line run: __main__, copy_tags_recursive and copy_tags.      *)
(* run.exit is "running", the exit code, or "uncaught" when an exception   *)
(* left the program; run.calls lists the copy_tags_recursive calls made,   *)
(* run.seen the destination files enumerated, run.copied the copy_tags     *)
(* calls made.  out keeps the disk as copy_tags found it and how the last  *)
(* copy_tags ended.                                                        *)

\* dict(zip(keys, values)).items(): a later value for a key replaces the
\* earlier one, in the place of the key's first insertion.
RECURSIVE DictItems(_, _)
DictItems(pairs, items) ==
    IF pairs = <<>> THEN items
    ELSE LET k == Head(pairs)[1]
             v == Head(pairs)[2]
         IN IF \E i \in DOMAIN items : items[i][1] = k
            THEN DictItems(Tail(pairs),
                           [i \in DOMAIN items |->
                               IF items[i][1] = k THEN <<k, v>> ELSE items[i]])
            ELSE DictItems(Tail(pairs), Append(items, <<k, v>>))

\* zip(sys.argv[1::2], sys.argv[2::2])
ArgPairs(argv) == [i \in 1..(Len(argv) \div 2) |-> <<argv[2 * i - 1], argv[2 * i]>>]

ArgRoots == {DirS, DirD, DirE}

NoCopy == [before |-> <<>>, outcome |-> "none"]

RunStart(argv) ==
    [argv |-> argv, pending |-> <<>>, srcdir |-> <<>>, destdir |-> <<>>,
     dest_files |-> <<>>, pair |-> <<>>, calls |-> <<>>, seen |-> {},
     copied |-> <<>>, log |-> <<>>, exit |-> "running"]

SrcTagChoices == {<<>>, (kArtist :> "v1") @@ (kEncodedBy :> "v2")}
DestTags(fmt) == IF fmt = "tagless" THEN <<>> ELSE (kArtist :> "v2") @@ (kEncodedBy :> "v1")

InitRun ==
    /\ pc = "main"
    /\ \E orphan \in BOOLEAN : \E fmt \in {"full", "tagless"} : \E srcTags \in SrcTagChoices :
         /\ fs = Tree([orphan |-> orphan, hidden |-> FALSE, link |-> FALSE], fmt)
         /\ disk = InitialDisk(fs, srcTags, DestTags(fmt))
    /\ \E n \in 0..MaxArgs : \E argv \in [1..n -> ArgRoots] : run = RunStart(argv)
    /\ inp = Unused /\ out = NoCopy /\ m_src = Unused /\ m_dest = Unused

\* if __name__ == '__main__': the argument checks and file_pairs
Main ==
    /\ pc = "main"
    /\ IF Len(run.argv) = 0
       THEN /\ run' = [run EXCEPT !.log = Append(@, "error"), !.exit = "1"]
            /\ pc' = "exit"
       ELSE IF Len(run.argv) % 2 # 0
       THEN /\ run' = [run EXCEPT !.log = Append(@, "error"), !.exit = "2"]
            /\ pc' = "exit"
       ELSE /\ run' = [run EXCEPT !.pending = DictItems(ArgPairs(run.argv), <<>>)]
            /\ pc' = "main_loop"
    /\ UNCHANGED <<inp, out, fs, disk, m_src, m_dest>>

\* for pair in file_pairs.items(): copy_tags_recursive(realpath, realpath),
\* up to the first step of its loop: the destination files are enumerated.
MainNext ==
    /\ pc = "main_loop"
    /\ IF run.pending = <<>>
       THEN /\ run' = [run EXCEPT !.exit = "0"]
            /\ pc' = "exit"
       ELSE LET srcdir == realpath(fs, realpath(fs, Head(run.pending)[1]))
                destdir == realpath(fs, realpath(fs, Head(run.pending)[2]))
                found == get_all_music_files(fs, <<destdir>>, TRUE)
            IN \E order \in Orders(found) :
                 /\ run' = [run EXCEPT !.pending = Tail(@),
                                       !.srcdir = srcdir, !.destdir = destdir,
                                       !.dest_files = [i \in DOMAIN order |-> order[i].filename],
                                       !.calls = Append(@, <<srcdir, destdir>>),
                                       !.seen = @ \cup {[src |-> srcdir, dest |-> destdir,
                                                         file |-> order[i].filename]
                                                        : i \in DOMAIN order}]
                 /\ pc' = "batch_loop"
    /\ UNCHANGED <<inp, out, fs, disk, m_src, m_dest>>

\* for pair in find_file_pairs(srcdir, destdir): the generator resolves the
\* next destination file's source; an exception of find_source_file leaves
\* the generator, the loop and the program.
BatchNext ==
    /\ pc = "batch_loop"
    /\ IF run.dest_files = <<>>
       THEN /\ run' = run
            /\ pc' = "main_loop"
       ELSE LET destfile == Head(run.dest_files)
                source == find_source_file(fs, destfile, run.srcdir, run.destdir)
            IN IF ~source.ok
               THEN /\ run' = [run EXCEPT !.exit = "uncaught"]
                    /\ pc' = "exit"
               ELSE /\ run' = [run EXCEPT !.dest_files = Tail(@),
                                          !.pair = <<source.val, destfile>>,
                                          !.log = Append(@, "info"),
                                          !.copied = Append(@, <<source.val, destfile>>)]
                    /\ pc' = "copy_load"
    /\ UNCHANGED <<inp, out, fs, disk, m_src, m_dest>>

\* copy_tags: m_src = AudioFile(src, ...); m_dest = AudioFile(dest, ...)
CopyLoad ==
    /\ pc = "copy_load"
    /\ LET src == realpath(fs, run.pair[1])
           dest == realpath(fs, run.pair[2])
       IN IF src \notin DOMAIN fs.audio \/ dest \notin DOMAIN fs.audio
          THEN /\ run' = [run EXCEPT !.exit = "uncaught"]
               /\ pc' = "exit"
               /\ UNCHANGED <<m_src, m_dest, out>>
          ELSE /\ m_src' = AudioFile(run.pair[1], disk[src], fs.audio[src], blacklist_regexes)
               /\ m_dest' = AudioFile(run.pair[2], disk[dest], fs.audio[dest], m_src'.blacklist)
               /\ out' = [before |-> disk, outcome |-> "none"]
               /\ pc' = "copy_clear"
               /\ run' = run
    /\ UNCHANGED <<inp, fs, disk>>

\* copy_tags: m_dest.clear()
CopyClear ==
    /\ pc = "copy_clear"
    /\ m_dest' = clear(m_dest).self
    /\ pc' = "copy_update"
    /\ UNCHANGED <<inp, out, fs, disk, m_src, run>>

\* What update() reads from the source adapter: its keys and their values.
Items(self) == [k \in keys(self) |-> getitem(self, k).ret.val]

\* Mutant: no except clause, AACError leaves copy_tags and the program.
CopyUpdateUncaught ==
    /\ pc = "copy_update"
    /\ LET res == update(m_dest, Items(m_src))
       IN IF res.ret.ok
          THEN /\ m_dest' = res.self
               /\ pc' = "copy_write"
               /\ UNCHANGED <<run, out>>
          ELSE /\ m_dest' = res.self
               /\ run' = [run EXCEPT !.exit = "uncaught"]
               /\ out' = out
               /\ pc' = "exit"
    /\ UNCHANGED <<inp, fs, disk, m_src>>

\* copy_tags: m_dest.update(m_src), and the except AACError clause
CopyUpdate ==
    /\ pc = "copy_update"
    /\ LET res == update(m_dest, Items(m_src))
       IN IF res.ret.ok
          THEN /\ m_dest' = res.self
               /\ pc' = "copy_write"
               /\ UNCHANGED <<run, out>>
          ELSE /\ m_dest' = res.self
               /\ run' = [run EXCEPT !.log = Append(@, "warning")]
               /\ out' = [out EXCEPT !.outcome = "warned"]
               /\ pc' = "batch_loop"
    /\ UNCHANGED <<inp, fs, disk, m_src>>

\* copy_tags: m_dest.write()
CopyWrite ==
    /\ pc = "copy_write"
    /\ disk' = [disk EXCEPT ![realpath(fs, m_dest.filename)] = m_dest.data]
    /\ out' = [out EXCEPT !.outcome = "written"]
    /\ pc' = "batch_loop"
    /\ UNCHANGED <<inp, fs, m_src, m_dest, run>>

NextRun == Main \/ MainNext \/ BatchNext \/ CopyLoad \/ CopyClear \/ CopyUpdate \/ CopyWrite

SpecRun == InitRun /\ [][NextRun]_vars

ValidArgs == Len(run.argv) > 0 /\ Len(run.argv) % 2 = 0

Resolvable(c) == find_source_file(fs, c.file, c.src, c.dest).ok

\* C1: a destination file whose source cannot be resolved is skipped alone:
\* the run ends normally and copy_tags was called for every enumerated
\* destination file that has a resolvable source.
C1_OnlyFailingPairSkipped ==
    (pc = "exit" /\ ValidArgs) =>
        /\ run.exit = "0"
        /\ \A c \in run.seen :
             Resolvable(c) => \E i \in DOMAIN run.copied : run.copied[i][2] = c.file

\* C8: every argument pair (a_i, b_i) of a run that ends normally has had
\* its recursive copy, the same source given with two destinations
\* included; no arguments exit with 1 and an odd count with 2, without any
\* copy.
C8_EveryPairCopied ==
    pc = "exit" =>
        /\ Len(run.argv) = 0 => (run.exit = "1" /\ run.calls = <<>> /\ run.copied = <<>>)
        /\ Len(run.argv) % 2 # 0 => (run.exit = "2" /\ run.calls = <<>> /\ run.copied = <<>>)
        /\ (ValidArgs /\ run.exit = "0") =>
             \A i \in 1..(Len(run.argv) \div 2) :
                 \E j \in DOMAIN run.calls :
                     run.calls[j] = <<realpath(fs, run.argv[2 * i - 1]),
                                      realpath(fs, run.argv[2 * i])>>

\* The destination holds no tags at all and the source has a tag to copy.
FormatIncapable ==
    /\ fs.audio[realpath(fs, run.pair[2])] = "tagless"
    /\ \E k \in DOMAIN disk[realpath(fs, run.pair[1])] : ~IsHiddenKey(k)

C9_DiskChangesAtWrite ==
    disk' # disk => (pc = "copy_write" /\ out'.outcome = "written")

C9_IncapableFormatStep ==
    (pc = "copy_update" /\ FormatIncapable) =>
        /\ disk' = out.before
        /\ run'.log = Append(run.log, "warning")
        /\ run'.exit = "running"
        /\ pc' = "batch_loop"
        /\ run'.dest_files = run.dest_files

C9_LoopGoesOn ==
    (pc = "batch_loop" /\ out.outcome = "warned") =>
        (run.exit = "running" /\ disk = out.before)

\* C9: the tags on disk change only at write(); when the destination format
\* holds no tags, copy_tags logs a warning and returns with the disk as it
\* found it, and copy_tags_recursive's loop goes on with the files left.
C9_NoWriteBeforeWrite ==
    [](C9_LoopGoesOn) /\ [][C9_DiskChangesAtWrite /\ C9_IncapableFormatStep]_vars

\* A tagless destination was warned about with a tag to copy at hand, and
\* the next destination file has since been copied and written.
C9_Witness ==
    /\ \E i, j \in DOMAIN run.log :
         i < j /\ run.log[i] = "warning" /\ run.log[j] = "info"
    /\ out.outcome = "written"
    /\ disk[Under(DirD, fT_m)] = <<>>
    /\ kArtist \in DOMAIN disk[Under(DirS, fT_f)]

----------------------------------------------------------------------------
(* copy_tags(src, dest) called on its own, over the tags the two files can *)
(* hold.                                                                   *)

\* Hidden keys are stored with one value in the destination and another in
\* the source, so that a copied hidden key shows.
SrcTagMaps ==
    {t \in TagMaps("full") : \A k \in DOMAIN t : k \in HiddenKeys => t[k] = "v2"}
DestTagMaps(fmt) ==
    {t \in TagMaps(fmt) : \A k \in DOMAIN t : k \in HiddenKeys => t[k] = "v1"}

InitCopy ==
    /\ pc = "copy_load"
    /\ \E fmt \in Formats : \E srcTags \in SrcTagMaps : \E destTags \in DestTagMaps(fmt) :
         /\ fs = Tree([orphan |-> FALSE, hidden |-> FALSE, link |-> FALSE], fmt)
         /\ disk = InitialDisk(fs, srcTags, destTags)
    /\ run = [RunStart(<<>>) EXCEPT !.pair = <<Under(DirS, fT_f), Under(DirD, fT_m)>>]
    /\ inp = Unused /\ out = NoCopy /\ m_src = Unused /\ m_dest = Unused

NextCopy == CopyLoad \/ CopyClear \/ CopyUpdate \/ CopyWrite

SpecCopy == InitCopy /\ [][NextCopy]_vars

CopySrc == realpath(fs, run.pair[1])
CopyDest == realpath(fs, run.pair[2])

\* C3: after a copy_tags that wrote, every visible key of the source that
\* the destination format takes is in the destination with the source's
\* value, and every visible key the destination had and the source has not
\* is gone.
C3_ClearThenCopy ==
    out.outcome = "written" =>
        LET src == out.before[CopySrc]
            old == out.before[CopyDest]
            new == disk[CopyDest]
            fmt == fs.audio[CopyDest]
        IN \A k \in TagKeys :
             ~IsHiddenKey(k) =>
                /\ (k \in DOMAIN src /\ fmt # "tagless" /\ k \notin Unsupported(fmt))
                     => (k \in DOMAIN new /\ new[k] = src[k]
                         /\ getitem(m_dest, k).ret = Ok(src[k]))
                /\ (k \in DOMAIN old /\ k \notin DOMAIN src) => k \notin DOMAIN new

\* A written copy that replaced the artist, dropped a key the source lacks
\* and kept the destination's encoder note.
C3_Witness ==
    /\ out.outcome = "written"
    /\ fs.audio[CopyDest] = "full"
    /\ kOdd \in DOMAIN out.before[CopyDest] /\ kOdd \notin DOMAIN out.before[CopySrc]
    /\ kArtist \in DOMAIN out.before[CopyDest] /\ kArtist \in DOMAIN out.before[CopySrc]
    /\ out.before[CopyDest][kArtist] # out.before[CopySrc][kArtist]
    /\ disk[CopyDest][kArtist] = out.before[CopySrc][kArtist]
    /\ kEncodedBy \in DOMAIN disk[CopyDest]

====
